---- MODULE Spec2Model ----
(***************************************************************************)
(* A model of mediawords/solr/query.py: the recursive-descent parser       *)
(* _parse_tokens over a shared, destructively consumed token list, the     *)
(* parse-tree nodes with filter_tree, and the tsquery renderer.            *)
(*                                                                         *)
(* Text is modelled as a sequence of one-character strings, so that        *)
(* concatenation, splitting and joining are computed and not assumed.      *)
(* A Python exception raised inside a pure method is the value Raise(e).   *)
(***************************************************************************)
EXTENDS Integers, Sequences, FiniteSets, TLC

VARIABLES
    input,            \* the token list handed to _parse_tokens by parse (never changes)
    tokens,           \* the shared mutable list `tokens`
    stack,            \* the active calls of _parse_tokens, innermost first
    phase,            \* "parsing", "parsed", "failed" or "done"
    result,           \* the value returned by the outermost _parse_tokens call
    err,              \* the exception that ended the run, or NoError
    output,           \* the text returned by tsquery
    filter_function,  \* the predicate handed to filter_tree, or NoFunction
    filtered          \* the values returned by successive filter_tree calls

vars == <<input, tokens, stack, phase, result, err, output, filter_function, filtered>>

----------------------------------------------------------------------------
(* Bounds of the model *)

\* longest token list between the wrapping parentheses, over the whole alphabet
MaxLen == 4
\* longest chain  t1 c t2 c ... tn  of terms joined by one kind of connector
MaxChain == 4
\* number of successive filter_tree applications with one predicate
MaxFilters == 2

----------------------------------------------------------------------------
(* Token types and placeholders *)

T_OPEN   == "open paren"
T_CLOSE  == "close paren"
T_PHRASE == "phrase"
T_AND    == "and"
T_OR     == "or"
T_NOT    == "not"
T_FIELD  == "field"
T_TERM   == "term"
T_WILD   == "wildcard"
T_PLUS   == "plus"
T_NOOP   == "noop"

NOOP_PLACEHOLDER == "__NOOP__"
FIELD_PLACEHOLDER == "__FIELD__"

Token(value, type) == [value |-> value, type |-> type]

----------------------------------------------------------------------------
(* Exceptions *)

NoError == "none"
ParseSyntaxError == "ParseSyntaxError"
AttributeError == "AttributeError"
IndexError == "IndexError"
ValueError == "ValueError"

Raise(e) == [k |-> "Raise", exc |-> e]
IsRaise(v) == v.k = "Raise"

----------------------------------------------------------------------------
(* Parse nodes.  None is Python's None.  filtered_by_function is the     *)
(* attribute filter_tree sets on the nodes it returns; a node that never *)
(* went through filter_tree has no such attribute (NoFunction).          *)

None == [k |-> "None"]
NoFunction == "none"

IsBoolean(node) == node.k \in {"AndNode", "OrNode"}

TermNode(term, wildcard) ==
    [k |-> "TermNode", term |-> term, wildcard |-> wildcard,
     filtered_by_function |-> NoFunction]

\* BooleanNode.__init__ sets operand.parent on every operand, which raises
\* AttributeError on None
BooleanNode(boolean_type, operands) ==
    IF \E i \in 1..Len(operands) : operands[i] = None
    THEN Raise(AttributeError)
    ELSE [k |-> boolean_type, operands |-> operands,
          filtered_by_function |-> NoFunction]

AndNode(operands) == BooleanNode("AndNode", operands)

OrNode(operands) == BooleanNode("OrNode", operands)

NotNode(operand) ==
    IF operand = None
    THEN Raise(AttributeError)
    ELSE [k |-> "NotNode", operand |-> operand,
          filtered_by_function |-> NoFunction]

FieldNode(field, operand) ==
    IF operand = None
    THEN Raise(AttributeError)
    ELSE [k |-> "FieldNode", field |-> field, operand |-> operand,
          filtered_by_function |-> NoFunction]

NoopNode == [k |-> "NoopNode", filtered_by_function |-> NoFunction]

----------------------------------------------------------------------------
(* Text.  A text is a sequence of units: single characters, and the two  *)
(* placeholders, which stand in the text as wholes.                       *)

NonWordChars == {" ", "\"", "'", "(", ")", ":", "*", "!", "-", "+", "&", "|", "~", "/"}

IsWordChar(c) == c \notin NonWordChars

SENTENCE == <<"s", "e", "n", "t", "e", "n", "c", "e">>

\* re.split( '\W+', text ): the pieces between the maximal runs of non-word
\* characters, the empty pieces at either end included
RECURSIVE SplitFrom(_, _, _, _)
SplitFrom(text, piece, pieces, in_run) ==
    IF text = <<>> THEN Append(pieces, piece)
    ELSE IF IsWordChar(Head(text))
         THEN SplitFrom(Tail(text), Append(piece, Head(text)), pieces, FALSE)
    ELSE IF in_run
         THEN SplitFrom(Tail(text), piece, pieces, TRUE)
    ELSE SplitFrom(Tail(text), <<>>, Append(pieces, piece), TRUE)

re_split(text) == SplitFrom(text, <<>>, <<>>, FALSE)

\* re.sub( placeholder, '', text )
re_sub(placeholder, text) == SelectSeq(text, LAMBDA u : u # placeholder)

\* connector.join( parts )
RECURSIVE join(_, _)
join(connector, parts) ==
    IF parts = <<>> THEN <<>>
    ELSE IF Len(parts) = 1 THEN parts[1]
    ELSE parts[1] \o connector \o join(connector, Tail(parts))

Text(s) == [k |-> "Text", text |-> s]

\* the first exception raised while the elements are evaluated in order
FirstRaise(values) ==
    values[CHOOSE i \in 1..Len(values) :
               /\ IsRaise(values[i])
               /\ \A j \in 1..(i - 1) : ~IsRaise(values[j])]

AnyRaise(values) == \E i \in 1..Len(values) : IsRaise(values[i])

----------------------------------------------------------------------------
(* Rendering *)

_plain_connector(node) == IF node.k = "AndNode" THEN <<"a", "n", "d">> ELSE <<"o", "r">>

_tsquery_connector(node) == IF node.k = "AndNode" THEN <<"&">> ELSE <<"|">>

\* __repr__ / __str__ of every node class; str( None ) is 'None'
RECURSIVE __repr__(_)
__repr__(node) ==
    CASE node.k = "None" -> <<"N", "o", "n", "e">>
      [] node.k = "TermNode" ->
            IF ~node.wildcard THEN node.term ELSE node.term \o <<"*">>
      [] IsBoolean(node) ->
            <<"(", " ">>
            \o join(<<" ">> \o _plain_connector(node) \o <<" ">>,
                    [i \in 1..Len(node.operands) |-> __repr__(node.operands[i])])
            \o <<" ", ")">>
      [] node.k = "NotNode" -> <<"!">> \o __repr__(node.operand)
      [] node.k = "FieldNode" -> node.field \o <<":">> \o __repr__(node.operand)
      [] node.k = "NoopNode" -> <<NOOP_PLACEHOLDER>>

\* _get_tsquery of every node class; on None the method lookup fails
RECURSIVE _get_tsquery(_)
_get_tsquery(node) ==
    CASE node.k = "None" -> Raise(AttributeError)
      [] node.k = "TermNode" ->
            Text(IF ~node.wildcard THEN node.term ELSE node.term \o <<":", "*">>)
      [] IsBoolean(node) ->
            LET parts == [i \in 1..Len(node.operands) |-> _get_tsquery(node.operands[i])]
            IN  IF AnyRaise(parts) THEN FirstRaise(parts)
                ELSE Text(<<"(", " ">>
                          \o join(<<" ">> \o _tsquery_connector(node) \o <<" ">>,
                                  [i \in 1..Len(parts) |-> parts[i].text])
                          \o <<" ", ")">>)
      [] node.k = "NotNode" ->
            LET part == _get_tsquery(node.operand)
            IN  IF IsRaise(part) THEN part ELSE Text(<<"!">> \o part.text)
      [] node.k = "FieldNode" ->
            IF node.field = SENTENCE
            THEN _get_tsquery(node.operand)
            ELSE Raise(ValueError)
      [] node.k = "NoopNode" -> Raise(ValueError)

----------------------------------------------------------------------------
(* Filtering *)

\* the predicates a caller hands to filter_tree: the one of filter_tree's
\* docstring, and two whose answer on a boolean node depends on the node's
\* operands; node_is_field_or_noop is the one tsquery defines
FilterFunctions == {"node_is_not", "node_is_noop_or_single", "node_is_not_or_single"}

\* a variant that drops the fields and keeps the noops
node_is_field_only(node) ==
    IF node.k = "FieldNode" /\ node.field # SENTENCE THEN TRUE
    ELSE FALSE

node_is_field_or_noop(node) ==
    IF node.k = "FieldNode" /\ node.field # SENTENCE THEN TRUE
    ELSE IF node.k = "NoopNode" THEN TRUE
    ELSE FALSE

node_is_single(node) == IsBoolean(node) /\ Len(node.operands) = 1

CallFilterFunction(function, node) ==
    CASE function = "node_is_field_or_noop" -> node_is_field_or_noop(node)
      [] function = "node_is_not" -> node.k = "NotNode"
      [] function = "node_is_noop_or_single" -> node.k = "NoopNode" \/ node_is_single(node)
      [] function = "node_is_not_or_single" -> node.k = "NotNode" \/ node_is_single(node)

\* a variant without the shortcut: every call filters again
NeverAlreadyFiltered(self, function) == FALSE

\* the test at the top of filter_tree: the node was returned by an earlier
\* filter_tree call with this very function
AlreadyFiltered(self, function) == self.filtered_by_function = function

RECURSIVE filter_tree(_, _)

_filter_boolean_node_children(self, function) ==
    LET results == [i \in 1..Len(self.operands) |-> filter_tree(self.operands[i], function)]
        filtered_operands == SelectSeq(results, LAMBDA r : r # None)
    IN  IF AnyRaise(results) THEN FirstRaise(results)
        ELSE IF Len(filtered_operands) > 0
             THEN BooleanNode(self.k, filtered_operands)
             ELSE None

_filter_node_children(self, function) ==
    CASE self.k = "TermNode" -> TermNode(self.term, self.wildcard)
      [] IsBoolean(self) -> _filter_boolean_node_children(self, function)
      [] self.k = "NotNode" ->
            LET filtered_operand == filter_tree(self.operand, function)
            IN  IF IsRaise(filtered_operand) THEN filtered_operand
                ELSE IF filtered_operand # None THEN NotNode(filtered_operand) ELSE None
      [] self.k = "FieldNode" ->
            LET filtered_operand == filter_tree(self.operand, function)
            IN  IF IsRaise(filtered_operand) THEN filtered_operand
                ELSE IF filtered_operand # None
                     THEN FieldNode(self.field, filtered_operand)
                     ELSE None
      [] self.k = "NoopNode" -> NoopNode

\* filter_tree is a method: on None the lookup raises AttributeError
filter_tree(self, function) ==
    IF self = None THEN Raise(AttributeError)
    ELSE IF AlreadyFiltered(self, function) THEN self
    ELSE IF CallFilterFunction(function, self) THEN None
    ELSE LET filtered_tree == _filter_node_children(self, function)
         IN  IF filtered_tree # None /\ ~IsRaise(filtered_tree)
             THEN [filtered_tree EXCEPT !.filtered_by_function = function]
             ELSE filtered_tree

\* tsquery: each call defines a new function node_is_field_or_noop, so no
\* node of the tree was filtered by it before
tsquery(self) ==
    IF self = None THEN Raise(AttributeError)
    ELSE LET filtered_tree == filter_tree(self, "node_is_field_or_noop")
         IN  IF IsRaise(filtered_tree) THEN filtered_tree
             ELSE IF filtered_tree = None THEN Raise(ParseSyntaxError)
             ELSE _get_tsquery(filtered_tree)

----------------------------------------------------------------------------
(* The inputs: token lists as _get_tokens produces them for "( " + q + " )" *)

TOK_OPEN   == Token(<<"(">>, T_OPEN)
TOK_CLOSE  == Token(<<")">>, T_CLOSE)
TOK_AND    == Token(<<"a", "n", "d">>, T_AND)
TOK_OR     == Token(<<"o", "r">>, T_OR)
TOK_NOT    == Token(<<"-">>, T_NOT)
TOK_PLUS   == Token(<<"+">>, T_PLUS)
TOK_WILD   == Token(<<"*">>, T_WILD)
TOK_NOOP   == Token(<<NOOP_PLACEHOLDER>>, T_NOOP)
TOK_TERM(c) == Token(<<c>>, T_TERM)
TOK_FIELD(name) == Token(name \o <<FIELD_PLACEHOLDER>>, T_FIELD)
TOK_PHRASE(text) == Token(<<"\"">> \o text \o <<"\"">>, T_PHRASE)

Alphabet ==
    {TOK_OPEN, TOK_CLOSE, TOK_AND, TOK_OR, TOK_NOT, TOK_PLUS, TOK_WILD, TOK_NOOP,
     TOK_TERM("a"), TOK_FIELD(<<"f">>), TOK_FIELD(SENTENCE),
     TOK_PHRASE(<<"a", " ", "b">>)}

AllQueries == UNION {[1..n -> Alphabet] : n \in 0..MaxLen}

\* t1 c t2 c ... tn with distinct terms and one connector
ChainTerms == <<"a", "b", "c", "d", "g", "h">>

RECURSIVE Chain(_, _)
Chain(n, connector) ==
    IF n = 1 THEN <<TOK_TERM(ChainTerms[1])>>
    ELSE Chain(n - 1, connector) \o connector \o <<TOK_TERM(ChainTerms[n])>>

ChainQueries ==
    {Chain(n, c) : n \in 2..MaxChain, c \in {<<TOK_AND>>, <<TOK_OR>>, <<TOK_PLUS>>, <<>>}}

\* queries with a second term, an empty phrase and longer nestings
OtherQueries ==
    {<<TOK_TERM("a"), TOK_TERM("b")>>,
     <<TOK_TERM("a"), TOK_NOT, TOK_TERM("b")>>,
     <<TOK_PHRASE(<<>>)>>,
     <<TOK_PHRASE(<<" ">>)>>,
     <<TOK_TERM("a"), TOK_AND, TOK_TERM("b"), TOK_OR, TOK_TERM("c")>>,
     <<TOK_TERM("a"), TOK_OR, TOK_TERM("b"), TOK_AND, TOK_TERM("c")>>,
     <<TOK_OPEN, TOK_NOT, TOK_FIELD(<<"f">>), TOK_TERM("a"), TOK_CLOSE, TOK_TERM("b")>>,
     <<TOK_OPEN, TOK_TERM("a"), TOK_OR, TOK_CLOSE, TOK_AND, TOK_TERM("b")>>,
     <<TOK_TERM("a"), TOK_CLOSE, TOK_CLOSE, TOK_TERM("b")>>,
     <<TOK_NOT, TOK_FIELD(<<"f">>), TOK_TERM("a"), TOK_TERM("b")>>,
     <<TOK_TERM("a"), TOK_OR, TOK_OPEN, TOK_TERM("b"), TOK_TERM("c"), TOK_CLOSE>>,
     <<TOK_TERM("a"), TOK_AND, TOK_OPEN, TOK_TERM("b"), TOK_TERM("c"), TOK_CLOSE>>}

\* parse: solr_query = "( " + solr_query + " )"
Wrap(query) == <<TOK_OPEN>> \o query \o <<TOK_CLOSE>>

Inputs == {Wrap(q) : q \in AllQueries \cup ChainQueries \cup OtherQueries}

----------------------------------------------------------------------------
(* The state of one call of _parse_tokens.  A call reads the shared list *)
(* `tokens`, or (shared = FALSE) the one-token list [ next_token ] built *)
(* for it, held in own.  pc is "loop" at the head of the while loop,     *)
(* "return" after the loop, or the call site the call is waiting at.     *)
(* entry is len( tokens ) when the call was entered.                      *)

Frame(want_type, shared, own, entry) ==
    [clause |-> None, boolean_clause |-> None, hanging_boolean |-> FALSE,
     want_type |-> want_type, shared |-> shared, own |-> own,
     pc |-> "loop", field_name |-> <<>>, entry |-> entry]

DefaultWantType == {T_OPEN, T_PHRASE, T_NOT, T_TERM}

Init ==
    /\ input \in Inputs
    /\ tokens = input
    /\ stack = <<Frame(DefaultWantType, TRUE, <<>>, Len(input))>>
    /\ phase = "parsing"
    /\ result = None
    /\ err = NoError
    /\ output = <<>>
    /\ filter_function = NoFunction
    /\ filtered = <<>>

----------------------------------------------------------------------------
(* One iteration of the while loop of the innermost call *)

Cur == Head(stack)

Toks(frame) == IF frame.shared THEN tokens ELSE frame.own

InLoop == phase = "parsing" /\ stack # <<>> /\ Cur.pc = "loop"

HasToken == InLoop /\ Toks(Cur) # <<>>

\* token = tokens.pop( 0 )
popped == Head(Toks(Cur))

\* a variant that skips every PLUS
PlusIgnored_Always == popped.type = T_PLUS

\* the test of the first `if` of the loop: this PLUS is skipped
PlusIgnored ==
    popped.type = T_PLUS /\ (Cur.clause = None \/ IsBoolean(Cur.clause))

\* a variant that treats a TERM after a clause as any other token
ImplicitOrTypes_NoTerm == {T_OPEN, T_PHRASE, T_NOOP, T_FIELD}

ImplicitOrTypes == {T_OPEN, T_PHRASE, T_TERM, T_NOOP, T_FIELD}

ImplicitAndTypes == {T_NOT}

\* a variant that puts OR in front of a NOT as well
Inserted_OrBeforeNot ==
    IF Cur.hanging_boolean THEN "none"
    ELSE IF Cur.clause # None /\ popped.type \in ImplicitOrTypes \cup ImplicitAndTypes THEN T_OR
    ELSE "none"

\* the connector the if / elif / elif chain puts in front of the popped token
Inserted ==
    IF Cur.hanging_boolean THEN "none"
    ELSE IF Cur.clause # None /\ popped.type \in ImplicitOrTypes THEN T_OR
    ELSE IF Cur.clause # None /\ popped.type \in ImplicitAndTypes THEN T_AND
    ELSE "none"

\* the token the iteration goes on with, and the list it leaves
token ==
    IF Inserted = T_OR THEN Token(<<"o", "r">>, T_OR)
    ELSE IF Inserted = T_AND THEN Token(<<"a", "n", "d">>, T_AND)
    ELSE popped

\* a variant in which the popped token is always put back
rest_PutBack == Toks(Cur)

rest == IF Inserted = "none" THEN Tail(Toks(Cur)) ELSE Toks(Cur)

\* if ( hanging_boolean ): boolean_clause = clause; hanging_boolean = False
Entered ==
    [Cur EXCEPT !.boolean_clause = IF Cur.hanging_boolean THEN Cur.clause ELSE @,
                !.hanging_boolean = FALSE]

\* _check_type passes and the branch for `type` is taken
Accepts(type) ==
    /\ HasToken
    /\ ~PlusIgnored
    /\ token.type \in Cur.want_type
    /\ token.type = type

\* a variant that appends the clause to boolean_clause whatever its type
EndOfIteration_AppendOnly(frame, clause, want_type) ==
    [frame EXCEPT
        !.want_type = want_type \cup {T_CLOSE},
        !.clause =
            IF frame.boolean_clause # None
            THEN [frame.boolean_clause EXCEPT !.operands = Append(@, clause)]
            ELSE clause,
        !.boolean_clause = None,
        !.pc = "loop"]

\* the end of the iteration: want_type gets T_CLOSE and the clause is merged
\* into boolean_clause
EndOfIteration(frame, clause, want_type) ==
    [frame EXCEPT
        !.want_type = want_type \cup {T_CLOSE},
        !.clause =
            IF frame.boolean_clause # None
            THEN IF frame.boolean_clause.k = clause.k
                 THEN [frame.boolean_clause EXCEPT !.operands = @ \o clause.operands]
                 ELSE [frame.boolean_clause EXCEPT !.operands = Append(@, clause)]
            ELSE clause,
        !.boolean_clause = None,
        !.pc = "loop"]

\* the innermost call goes on as `frame` with `toks` left in its list
Continue(frame, toks) ==
    /\ stack' = <<[frame EXCEPT !.own = IF frame.shared THEN @ ELSE toks]>> \o Tail(stack)
    /\ tokens' = IF frame.shared THEN toks ELSE tokens
    /\ UNCHANGED <<input, phase, result, err, output, filter_function, filtered>>

\* the innermost call waits as `frame` for the call `callee`
Enter(frame, callee, toks) ==
    /\ stack' = <<callee, frame>> \o Tail(stack)
    /\ tokens' = toks
    /\ UNCHANGED <<input, phase, result, err, output, filter_function, filtered>>

\* an exception leaves every active call
Fail(exception, toks) ==
    /\ stack' = <<>>
    /\ tokens' = toks
    /\ phase' = "failed"
    /\ err' = exception
    /\ UNCHANGED <<input, result, output, filter_function, filtered>>

SharedRest == IF Cur.shared THEN rest ELSE tokens

WantAfterOpen ==
    {T_OPEN, T_PHRASE, T_NOT, T_FIELD, T_TERM, T_NOOP, T_CLOSE, T_AND, T_OR, T_PLUS}
WantInOpen == {T_OPEN, T_PHRASE, T_NOT, T_FIELD, T_TERM, T_NOOP, T_CLOSE}
WantAfterLeaf == {T_CLOSE, T_WILD, T_AND, T_OR, T_PLUS}
WantAfterConnector ==
    {T_OPEN, T_PHRASE, T_NOT, T_FIELD, T_TERM, T_NOOP, T_CLOSE, T_PLUS}
WantAfterUnary == {T_CLOSE, T_AND, T_OR, T_PLUS}
WantInUnaryOpen == {T_PHRASE, T_NOT, T_TERM, T_NOOP, T_CLOSE, T_PLUS}
WantFieldOperand == {T_PHRASE, T_TERM, T_NOOP}
WantNotOperand == {T_PHRASE, T_TERM, T_NOOP, T_FIELD}
WantNotField == {T_FIELD}

\* while ( len( tokens ) > 0 ) is false
WhileExit ==
    /\ InLoop
    /\ Toks(Cur) = <<>>
    /\ Continue([Cur EXCEPT !.pc = "return"], <<>>)

\* if ( token.type == T_PLUS and ... ): continue
SkipPlus ==
    /\ HasToken
    /\ PlusIgnored
    /\ Continue(Cur, Tail(Toks(Cur)))

\* _check_type raises
CheckTypeFails ==
    /\ HasToken
    /\ ~PlusIgnored
    /\ token.type \notin Cur.want_type
    /\ Fail(ParseSyntaxError, SharedRest)

\* T_OPEN: clause = _parse_tokens( tokens, ... )
OpenToken ==
    /\ Accepts(T_OPEN)
    /\ Enter([Entered EXCEPT !.pc = "open"],
             Frame(WantInOpen, TRUE, <<>>, Len(rest)), rest)

\* a variant that wants an operand after a connector
CloseToken_NeedsOperand ==
    /\ Accepts(T_CLOSE)
    /\ IF Cur.hanging_boolean
       THEN Fail(ParseSyntaxError, SharedRest)
       ELSE Continue([Entered EXCEPT !.pc = "return"], rest)

\* T_CLOSE: break
CloseToken ==
    /\ Accepts(T_CLOSE)
    /\ Continue([Entered EXCEPT !.pc = "return"], rest)

\* T_NOOP
NoopToken ==
    /\ Accepts(T_NOOP)
    /\ Continue(EndOfIteration(Entered, NoopNode, WantAfterLeaf), rest)

\* the test on tokens[ 0 ] after a TERM
WildcardFollows(toks) == Len(toks) > 0 /\ toks[1].type = T_WILD

\* T_TERM: a following WILDCARD is popped with it
TermToken ==
    /\ Accepts(T_TERM)
    /\ LET wildcard == WildcardFollows(rest)
       IN  Continue(EndOfIteration(Entered, TermNode(token.value, wildcard), WantAfterLeaf),
                    IF wildcard THEN Tail(rest) ELSE rest)

\* a variant that always wraps the clause in a new one-operand node
ConnectorBranch_Nesting ==
    LET node_type == IF token.type = T_OR THEN "OrNode" ELSE "AndNode"
        clause == BooleanNode(node_type, <<Cur.clause>>)
    IN  IF IsRaise(clause)
        THEN Fail(clause.exc, SharedRest)
        ELSE Continue([EndOfIteration(Entered, clause, WantAfterConnector)
                           EXCEPT !.hanging_boolean = TRUE],
                      rest)

\* the T_AND / T_PLUS / T_OR branch, for a token of the list or an inserted one
ConnectorBranch ==
    LET node_type == IF token.type = T_OR THEN "OrNode" ELSE "AndNode"
        clause == IF Cur.clause.k = node_type
                  THEN BooleanNode(node_type, Cur.clause.operands)
                  ELSE BooleanNode(node_type, <<Cur.clause>>)
    IN  IF IsRaise(clause)
        THEN Fail(clause.exc, SharedRest)
        ELSE Continue([EndOfIteration(Entered, clause, WantAfterConnector)
                           EXCEPT !.hanging_boolean = TRUE],
                      rest)

\* an AND, OR or PLUS token of the list
ConnectorToken ==
    /\ HasToken /\ ~PlusIgnored /\ token.type \in Cur.want_type
    /\ Inserted = "none"
    /\ token.type \in {T_AND, T_PLUS, T_OR}
    /\ ConnectorBranch

\* INSERT OR: the popped token goes back and an OR token is handled
InsertOr ==
    /\ HasToken /\ ~PlusIgnored /\ token.type \in Cur.want_type
    /\ Inserted = T_OR
    /\ ConnectorBranch

\* INSERT AND: the popped NOT goes back and an AND token is handled
InsertAnd ==
    /\ HasToken /\ ~PlusIgnored /\ token.type \in Cur.want_type
    /\ Inserted = T_AND
    /\ ConnectorBranch

\* T_FIELD: the next token is popped; an OPEN starts a call on the shared
\* list, any other token a call on [ next_token ]
FieldToken ==
    /\ Accepts(T_FIELD)
    /\ IF rest = <<>>
       THEN Fail(IndexError, SharedRest)
       ELSE LET next_token == Head(rest)
                frame == [Entered EXCEPT !.pc = "field",
                                         !.field_name = re_sub(FIELD_PLACEHOLDER, token.value)]
            IN  IF next_token.type = T_OPEN
                THEN Enter(frame, Frame(WantInUnaryOpen, TRUE, <<>>, Len(rest) - 1), Tail(rest))
                ELSE Enter(frame, Frame(WantFieldOperand, FALSE, <<next_token>>, 1), Tail(rest))

\* T_WILD
WildToken ==
    /\ Accepts(T_WILD)
    /\ Fail(ParseSyntaxError, SharedRest)

\* T_NOT: the next token is popped; a FIELD is put back
NotToken ==
    /\ Accepts(T_NOT)
    /\ IF rest = <<>>
       THEN Fail(IndexError, SharedRest)
       ELSE LET next_token == Head(rest)
                frame == [Entered EXCEPT !.pc = "not"]
            IN  IF next_token.type = T_OPEN
                THEN Enter(frame, Frame(WantInUnaryOpen, TRUE, <<>>, Len(rest) - 1), Tail(rest))
                ELSE IF next_token.type = T_FIELD
                THEN Enter(frame, Frame(WantNotField, TRUE, <<>>, Len(rest)), rest)
                ELSE Enter(frame, Frame(WantNotOperand, FALSE, <<next_token>>, 1), Tail(rest))

\* the TermNode operands of a phrase
PhraseOperands(value) ==
    LET terms == SelectSeq(re_split(value), LAMBDA term : term # <<>>)
    IN  [i \in 1..Len(terms) |-> TermNode(terms[i], FALSE)]

\* T_PHRASE
PhraseToken ==
    /\ Accepts(T_PHRASE)
    /\ LET operands == PhraseOperands(token.value)
       IN  IF Len(operands) = 0
           THEN Fail(ParseSyntaxError, SharedRest)
           ELSE Continue(EndOfIteration(Entered, AndNode(operands), WantAfterOpen), rest)

----------------------------------------------------------------------------
(* return clause *)

Returning == phase = "parsing" /\ stack # <<>> /\ Cur.pc = "return"

Caller == stack[2]

\* the caller goes on as `frame`
Resume(frame) ==
    /\ stack' = <<frame>> \o Tail(Tail(stack))
    /\ UNCHANGED <<input, tokens, phase, result, err, output, filter_function, filtered>>

\* the outermost call returns to parse
ReturnToParse ==
    /\ Returning
    /\ Len(stack) = 1
    /\ stack' = <<>>
    /\ phase' = "parsed"
    /\ result' = Cur.clause
    /\ UNCHANGED <<input, tokens, err, output, filter_function, filtered>>

\* the call made for T_OPEN returns
ReturnToOpen ==
    /\ Returning
    /\ Len(stack) > 1
    /\ Caller.pc = "open"
    /\ Resume(EndOfIteration(Caller, Cur.clause, WantAfterOpen))

\* the call made for the operand of a field returns
ReturnToField ==
    /\ Returning
    /\ Len(stack) > 1
    /\ Caller.pc = "field"
    /\ LET clause == FieldNode(Caller.field_name, Cur.clause)
       IN  IF IsRaise(clause)
           THEN Fail(clause.exc, tokens)
           ELSE Resume(EndOfIteration(Caller, clause, WantAfterUnary))

\* the call made for the operand of a NOT returns
ReturnToNot ==
    /\ Returning
    /\ Len(stack) > 1
    /\ Caller.pc = "not"
    /\ LET clause == NotNode(Cur.clause)
       IN  IF IsRaise(clause)
           THEN Fail(clause.exc, tokens)
           ELSE Resume(EndOfIteration(Caller, clause, WantAfterUnary))

----------------------------------------------------------------------------
(* The callers of the parse result *)

\* result.tsquery()
Tsquery ==
    /\ phase = "parsed"
    /\ LET text == tsquery(result)
       IN  /\ err' = IF IsRaise(text) THEN text.exc ELSE NoError
           /\ output' = IF IsRaise(text) THEN <<>> ELSE text.text
    /\ phase' = "done"
    /\ UNCHANGED <<input, tokens, stack, result, filter_function, filtered>>

\* the tree handed to the next filter_tree call: the parse result, then the
\* tree the call before returned
FilterSubject == IF filtered = <<>> THEN result ELSE filtered[Len(filtered)]

\* tree.filter_tree( function ), with one function throughout
FilterTree(function) ==
    /\ phase = "parsed"
    /\ Len(filtered) < MaxFilters
    /\ filter_function \in {NoFunction, function}
    /\ FilterSubject.k \notin {"Raise"}
    /\ filter_function' = function
    /\ filtered' = Append(filtered, filter_tree(FilterSubject, function))
    /\ UNCHANGED <<input, tokens, stack, phase, result, err, output>>

Next ==
    \/ WhileExit
    \/ SkipPlus
    \/ CheckTypeFails
    \/ OpenToken
    \/ CloseToken
    \/ NoopToken
    \/ TermToken
    \/ ConnectorToken
    \/ InsertOr
    \/ InsertAnd
    \/ FieldToken
    \/ WildToken
    \/ NotToken
    \/ PhraseToken
    \/ ReturnToParse
    \/ ReturnToOpen
    \/ ReturnToField
    \/ ReturnToNot
    \/ Tsquery
    \/ \E function \in FilterFunctions : FilterTree(function)

Spec == Init /\ [][Next]_vars

----------------------------------------------------------------------------
(* What the actions above rely on *)

IsSuffix(s, t) == Len(s) <= Len(t) /\ s = SubSeq(t, Len(t) - Len(s) + 1, Len(t))

\* The shared list is always a suffix of the input (a token put back is the
\* one just popped).  Only the innermost call can be one on a one-token
\* list: such a call never calls, so every call that is made reads the
\* shared list.  boolean_clause is None or an And/Or node.  The pops of the
\* FIELD and NOT branches never find the list empty.
ModelInvariant ==
    /\ IsSuffix(tokens, input)
    /\ \A i \in 1..Len(stack) :
          /\ i > 1 => stack[i].shared /\ stack[i].pc \in {"open", "field", "not"}
          /\ i = 1 => stack[i].pc \in {"loop", "return"}
          /\ ~stack[i].shared => Len(stack[i].own) <= 1
          /\ stack[i].boolean_clause = None \/ IsBoolean(stack[i].boolean_clause)
          /\ stack[i].hanging_boolean => IsBoolean(stack[i].clause)
    /\ err # IndexError

----------------------------------------------------------------------------
(* Properties *)

Parsed == phase \in {"parsed", "done"}

HoldsAbsent(operands) == \E i \in 1..Len(operands) : operands[i] = None

\* the node of kind `k` that a connector makes of `clause`
Over(k, clause) ==
    [k |-> k,
     operands |-> IF clause.k = k THEN clause.operands ELSE <<clause>>,
     filtered_by_function |-> NoFunction]

\* the innermost call goes on, in the loop, with its token list as it was
SameCallSameTokens ==
    /\ phase' = "parsing"
    /\ Len(stack') = Len(stack)
    /\ Head(stack').pc = "loop"
    /\ tokens' = tokens
    /\ Head(stack').own = Cur.own

TermsOfChain(n) == [i \in 1..n |-> TermNode(<<ChainTerms[i]>>, FALSE)]

\* a clause exists, no connector is pending and an operand starts
C1_Case ==
    /\ HasToken
    /\ Cur.clause # None
    /\ ~Cur.hanging_boolean
    /\ popped.type \in {T_OPEN, T_PHRASE, T_TERM, T_NOOP, T_FIELD}

\* what an OR token does in that state: it is permitted, the clause becomes
\* an Or node over it awaiting its right operand, and the operand is still
\* the next token; BooleanNode.__init__ raises on an operand that is None
C1_AsIfOr ==
    /\ T_OR \in Cur.want_type
    /\ IF Cur.clause.k = "OrNode" /\ HoldsAbsent(Cur.clause.operands)
       THEN phase' = "failed" /\ err' = AttributeError
       ELSE /\ SameCallSameTokens
            /\ Head(stack').clause = Over("OrNode", Cur.clause)
            /\ Head(stack').hanging_boolean

C1_Examples ==
    /\ \A n \in 2..MaxChain :
          (Parsed /\ input = Wrap(Chain(n, <<>>)))
              => result = OrNode(TermsOfChain(n))
    /\ (Parsed /\ input = Wrap(<<TOK_TERM("a"), TOK_TERM("b")>>))
          => /\ result = OrNode(<<TermNode(<<"a">>, FALSE), TermNode(<<"b">>, FALSE)>>)
             /\ __repr__(result) = <<"(", " ", "a", " ", "o", "r", " ", "b", " ", ")">>

\* C1: when a clause exists, no connector is pending and the next token is
\* OPEN, PHRASE, TERM, NOOP or FIELD, the iteration does what an OR token
\* standing before that token does, so adjacent operands are joined by Or;
\* `a b` parses to Or(Term(a), Term(b)), rendered `( a or b )`
C1_ImplicitOr == [][(C1_Case => C1_AsIfOr) /\ C1_Examples']_vars

C1_Witness ==
    /\ phase = "parsed"
    /\ input = Wrap(<<TOK_TERM("a"), TOK_TERM("b")>>)
    /\ __repr__(result) = <<"(", " ", "a", " ", "o", "r", " ", "b", " ", ")">>

\* a clause exists, no connector is pending and the next token is NOT
C2_Case ==
    /\ HasToken
    /\ Cur.clause # None
    /\ ~Cur.hanging_boolean
    /\ popped.type = T_NOT

C2_AsIfAnd ==
    /\ T_AND \in Cur.want_type
    /\ IF Cur.clause.k = "AndNode" /\ HoldsAbsent(Cur.clause.operands)
       THEN phase' = "failed" /\ err' = AttributeError
       ELSE /\ SameCallSameTokens
            /\ Head(stack').clause = Over("AndNode", Cur.clause)
            /\ Head(stack').hanging_boolean

\* the NOT that follows the pending And: the And node becomes the
\* accumulator of the call while the operand of the NOT is parsed
C2_NotAfterAnd ==
    (/\ HasToken
     /\ Cur.hanging_boolean
     /\ Cur.clause.k = "AndNode"
     /\ popped.type = T_NOT
     /\ phase' = "parsing")
        => /\ Len(stack') = Len(stack) + 1
           /\ stack'[2].pc = "not"
           /\ stack'[2].boolean_clause = Cur.clause

\* the operand of the NOT returns: the Not node is the last operand of the And
C2_NotIsLast ==
    (/\ Returning
     /\ Len(stack) > 1
     /\ Caller.pc = "not"
     /\ Caller.boolean_clause.k = "AndNode"
     /\ phase' = "parsing")
        => /\ Head(stack').clause.k = "AndNode"
           /\ Head(stack').clause.operands =
                  Append(Caller.boolean_clause.operands, NotNode(Cur.clause))

C2_Example ==
    LET a_not_b == <<TOK_TERM("a"), TOK_NOT, TOK_TERM("b")>>
    IN  /\ (Parsed /\ input = Wrap(a_not_b))
              => result = AndNode(<<TermNode(<<"a">>, FALSE),
                                    NotNode(TermNode(<<"b">>, FALSE))>>)
        /\ (phase = "done" /\ input = Wrap(a_not_b))
              => /\ err = NoError
                 /\ output = <<"(", " ", "a", " ", "&", " ", "!", "b", " ", ")">>

\* C2: when a clause exists, no connector is pending and the next token is
\* NOT, the iteration does what an AND token standing before the NOT does,
\* and the Not node becomes the last operand of that And node; `a -b`
\* parses to And(Term(a), Not(Term(b))), rendered `( a & !b )` by tsquery
C2_ImplicitAndBeforeNot ==
    [][(C2_Case => C2_AsIfAnd) /\ C2_NotAfterAnd /\ C2_NotIsLast /\ C2_Example']_vars

C2_Witness ==
    /\ phase = "done"
    /\ input = Wrap(<<TOK_TERM("a"), TOK_NOT, TOK_TERM("b")>>)
    /\ output = <<"(", " ", "a", " ", "&", " ", "!", "b", " ", ")">>

\* C3: a chain of n >= 2 terms joined by n-1 AND tokens, or by n-1 OR
\* tokens, parses to one node of that kind holding exactly the n Term
\* operands in input order
C3_Flattening ==
    \A n \in 2..MaxChain :
        /\ (Parsed /\ input = Wrap(Chain(n, <<TOK_AND>>)))
              => result = AndNode(TermsOfChain(n))
        /\ (Parsed /\ input = Wrap(Chain(n, <<TOK_OR>>)))
              => result = OrNode(TermsOfChain(n))

C3_Witness ==
    /\ phase = "parsed"
    /\ input = Wrap(Chain(3, <<TOK_AND>>))
    /\ result.k = "AndNode"
    /\ Len(result.operands) = 3
    /\ \A i \in 1..3 : result.operands[i].k = "TermNode"

\* the token that follows, in the input, the token the innermost call popped
FollowingInInput == IF Cur.shared THEN rest ELSE tokens

\* the node the iteration made, alone or as the last operand of the accumulator
LastMade(clause) ==
    IF IsBoolean(clause) THEN clause.operands[Len(clause.operands)] ELSE clause

C4_TermThenWildcard ==
    (/\ Accepts(T_TERM)
     /\ FollowingInInput # <<>>
     /\ Head(FollowingInInput).type = T_WILD)
        => /\ phase' = "parsing"
           /\ LastMade(Head(stack').clause).k = "TermNode"
           /\ LastMade(Head(stack').clause).wildcard
           /\ tokens' = Tail(FollowingInInput)

C4_NoOtherWildcard ==
    Parsed =>
        \A i \in 1..Len(input) :
            input[i].type = T_WILD => (i > 1 /\ input[i - 1].type = T_TERM)

\* C4: every TERM token made into a Term node, also as the one-token
\* operand of a FIELD or of a NOT, takes a WILDCARD that follows it in the
\* input and is marked wildcard; no parse succeeds with a WILDCARD anywhere
\* else
C4_WildcardAfterEveryTerm == [][C4_TermThenWildcard /\ C4_NoOtherWildcard']_vars

RECURSIVE NoFieldOrNoop(_)
NoFieldOrNoop(node) ==
    CASE node.k = "None" -> TRUE
      [] node.k = "TermNode" -> TRUE
      [] IsBoolean(node) -> \A i \in 1..Len(node.operands) : NoFieldOrNoop(node.operands[i])
      [] node.k = "NotNode" -> NoFieldOrNoop(node.operand)
      [] node.k = "FieldNode" -> node.field = SENTENCE /\ NoFieldOrNoop(node.operand)
      [] node.k = "NoopNode" -> FALSE

\* the nesting depth after each prefix of the text; -1 once a ")" has no "("
RECURSIVE Depth(_, _)
Depth(text, depth) ==
    IF depth < 0 \/ text = <<>> THEN depth
    ELSE Depth(Tail(text),
               IF Head(text) = "(" THEN depth + 1
               ELSE IF Head(text) = ")" THEN depth - 1
               ELSE depth)

Balanced(text) == Depth(text, 0) = 0

\* the characters of the terms of the inputs: no field name holds one
WordsOfTerms == {ChainTerms[i] : i \in 1..Len(ChainTerms)}

OnlyTargetSyntax(text) ==
    \A i \in 1..Len(text) :
        \/ text[i] \in {"(", ")", " ", "&", "|", "!"} \cup WordsOfTerms
        \/ text[i] = ":" /\ i < Len(text) /\ text[i + 1] = "*"
        \/ text[i] = "*" /\ i > 1 /\ text[i - 1] = ":"

\* C5: tsquery never raises the 'should have been filtered' ValueError: the
\* tree left by its filter holds no Noop node and no Field node other than
\* `sentence`, and the text it returns is made of balanced parentheses, `&`,
\* `|`, `!`, `:*` and the words of the terms only
C5_NothingUnfilteredIsRendered ==
    /\ err # ValueError
    /\ (Parsed /\ result # None) =>
          LET filtered_tree == filter_tree(result, "node_is_field_or_noop")
          IN  (~IsRaise(filtered_tree)) => NoFieldOrNoop(filtered_tree)
    /\ (phase = "done" /\ err = NoError) =>
          /\ output # <<>>
          /\ Balanced(output)
          /\ OnlyTargetSyntax(output)

C5_Witness ==
    /\ phase = "done"
    /\ err = NoError
    /\ \E i \in 1..Len(input) : input[i] = TOK_FIELD(<<"f">>)
    /\ \E i \in 1..Len(input) : input[i] = TOK_NOOP
    /\ \E i \in 1..Len(output) : output[i] = "("

\* every leaf of the tree is a Noop or lies under a field other than `sentence`
RECURSIVE NothingToRender(_)
NothingToRender(node) ==
    CASE node.k = "None" -> TRUE
      [] node.k = "TermNode" -> FALSE
      [] IsBoolean(node) -> \A i \in 1..Len(node.operands) : NothingToRender(node.operands[i])
      [] node.k = "NotNode" -> NothingToRender(node.operand)
      [] node.k = "FieldNode" -> node.field # SENTENCE \/ NothingToRender(node.operand)
      [] node.k = "NoopNode" -> TRUE

\* C6: tsquery raises ParseSyntaxError exactly when every leaf of the tree
\* is a Noop or lies under a field other than `sentence`, and returns a
\* text in every other case
C6_EmptyExactlyWhenNothingLeft ==
    (phase = "done" /\ result # None) =>
        IF NothingToRender(result)
        THEN err = ParseSyntaxError
        ELSE err = NoError /\ output # <<>>

IsNode(v) == v # None /\ ~IsRaise(v)

C8_SingleErrorKind == err \in {NoError, ParseSyntaxError}

\* C9: when the outermost call returns, no token is left on the list
C9_AllTokensConsumed == phase = "parsed" => tokens = <<>>

\* the index in the input of the token before the first token of the call
OpenOf(frame) == Len(input) - frame.entry

StartedOnOpen(frame) ==
    /\ frame.shared
    /\ OpenOf(frame) >= 1
    /\ input[OpenOf(frame)].type = T_OPEN

\* the index of the CLOSE that closes the nesting entered before index i at
\* `depth` inner levels, 0 if there is none
RECURSIVE MatchFrom(_, _)
MatchFrom(i, depth) ==
    IF i > Len(input) THEN 0
    ELSE IF input[i].type = T_OPEN THEN MatchFrom(i + 1, depth + 1)
    ELSE IF input[i].type = T_CLOSE
         THEN IF depth = 0 THEN i ELSE MatchFrom(i + 1, depth - 1)
    ELSE MatchFrom(i + 1, depth)

MatchingClose(open) == MatchFrom(open + 1, 0)

\* a call started on an OPEN that has a matching CLOSE returns with exactly
\* the tokens after that CLOSE left
C10_ReturnsAfterMatch ==
    (/\ Returning
     /\ StartedOnOpen(Cur)
     /\ MatchingClose(OpenOf(Cur)) # 0)
        => tokens = SubSeq(input, MatchingClose(OpenOf(Cur)) + 1, Len(input))

\* a call other than the outermost one that is about to consume a CLOSE was
\* started on an OPEN, and the CLOSE is the one matching that OPEN
C10_ConsumesOwnClose ==
    (Accepts(T_CLOSE) /\ Len(stack) > 1)
        => /\ StartedOnOpen(Cur)
           /\ Len(input) - Len(tokens) + 1 = MatchingClose(OpenOf(Cur))

\* C10: every call started on an OPEN returns right after the CLOSE matching
\* that OPEN, and no call started inside the parentheses, the call for a
\* FIELD after NOT included, consumes the CLOSE of an enclosing level
C10_ParenthesisMatching == C10_ReturnsAfterMatch /\ C10_ConsumesOwnClose

\* the call now returning is the one made for a FIELD put back after NOT
ReturnsToNotField ==
    /\ Returning
    /\ Len(stack) > 1
    /\ Caller.pc = "not"
    /\ Cur.shared
    /\ OpenOf(Cur) >= 1
    /\ input[OpenOf(Cur)].type = T_NOT

\* the number of tokens a FIELD at index i takes with its operand: the FIELD
\* and one token, or the FIELD and a parenthesized sub-expression
FieldExtent(i) ==
    IF i + 1 <= Len(input) /\ input[i + 1].type = T_OPEN
    THEN IF MatchingClose(i + 1) = 0 THEN Len(input) - i + 1
         ELSE MatchingClose(i + 1) - i + 1
    ELSE 2

\* the call made for NOT FIELD returns the Field node, with the tokens after
\* the field's operand still on the list
C11_OperandIsField ==
    ReturnsToNotField =>
        /\ Cur.clause.k = "FieldNode"
        /\ Len(tokens) = Cur.entry - FieldExtent(OpenOf(Cur) + 1)

C11_Example ==
    (Parsed /\ input = Wrap(<<TOK_NOT, TOK_FIELD(<<"f">>), TOK_TERM("a"), TOK_TERM("b")>>))
        => result = OrNode(<<NotNode(FieldNode(<<"f">>, TermNode(<<"a">>, FALSE))),
                             TermNode(<<"b">>, FALSE)>>)

\* C11: when NOT is followed by FIELD, the operand of the Not node is exactly
\* the Field node of that field and its one operand, and the tokens after
\* the field's operand are left to the enclosing call; `-f:a b` parses to
\* Or(Not(Field(f, Term(a))), Term(b))
C11_NotFieldScope == C11_OperandIsField /\ C11_Example

\* every And/Or node below `node` has an operand, and no operand is None
RECURSIVE WellFormed(_)
WellFormed(node) ==
    IF IsBoolean(node)
    THEN /\ Len(node.operands) >= 1
         /\ \A i \in 1..Len(node.operands) :
               node.operands[i] # None /\ WellFormed(node.operands[i])
    ELSE IF node.k \in {"NotNode", "FieldNode"}
    THEN node.operand # None /\ WellFormed(node.operand)
    ELSE TRUE

\* C12: in a tree the parser returns, every And/Or node has at least one
\* operand and every operand of every And, Or, Not and Field node is a
\* node, never None, also when an empty pair of parentheses stands as an
\* operand
C12_WellFormedTree == (Parsed /\ result # None) => WellFormed(result)

\* the innermost call has taken one token off its list
OneTokenTaken ==
    IF Cur.shared
    THEN tokens' = Tail(tokens)
    ELSE tokens' = tokens /\ Head(stack').own = Tail(Cur.own)

\* a PLUS is next while there is no clause, or the clause is an And/Or node
C13_DiscardCase ==
    /\ HasToken
    /\ popped.type = T_PLUS
    /\ (Cur.clause = None \/ Cur.clause.k \in {"AndNode", "OrNode"})

\* the PLUS is taken and nothing else of the call changes
C13_Discarded ==
    /\ phase' = "parsing"
    /\ Len(stack') = Len(stack)
    /\ Tail(stack') = Tail(stack)
    /\ OneTokenTaken
    /\ Head(stack').pc = "loop"
    /\ Head(stack').clause = Cur.clause
    /\ Head(stack').hanging_boolean = Cur.hanging_boolean
    /\ Head(stack').boolean_clause = Cur.boolean_clause
    /\ Head(stack').want_type = Cur.want_type

\* a token of kind `type` is next in any other state
C13_ConnectorCase(type) ==
    /\ HasToken
    /\ popped.type = type
    /\ Cur.clause # None
    /\ Cur.clause.k \notin {"AndNode", "OrNode"}

\* what an AND token does in such a state: it is permitted and taken, and the
\* clause becomes a one-operand And node awaiting its right operand
C13_EffectOfAnd ==
    /\ T_AND \in Cur.want_type
    /\ T_PLUS \in Cur.want_type
    /\ phase' = "parsing"
    /\ Len(stack') = Len(stack)
    /\ Tail(stack') = Tail(stack)
    /\ OneTokenTaken
    /\ Head(stack').pc = "loop"
    /\ Head(stack').clause = Over("AndNode", Cur.clause)
    /\ Head(stack').hanging_boolean
    /\ Head(stack').boolean_clause = None
    /\ Head(stack').want_type = WantAfterConnector \cup {T_CLOSE}

C13_Example ==
    (Parsed /\ input = Wrap(<<TOK_TERM("a"), TOK_PLUS, TOK_TERM("b")>>))
        => result = AndNode(<<TermNode(<<"a">>, FALSE), TermNode(<<"b">>, FALSE)>>)

\* C13: a PLUS taken while the call has no clause, or while the clause is an
\* And or Or node, is discarded and leaves clause, hanging_boolean,
\* boolean_clause and want_type as they were; a PLUS taken in any other
\* state does exactly what an AND token does in that state; `a +b` parses
\* to And(Term(a), Term(b))
C13_PlusHandling ==
    [][/\ C13_DiscardCase => C13_Discarded
       /\ C13_ConnectorCase(T_AND) => C13_EffectOfAnd
       /\ C13_ConnectorCase(T_PLUS) => C13_EffectOfAnd
       /\ C13_Example']_vars

\* a parse in which one PLUS was discarded and one acted as AND
C13_Witness ==
    /\ phase = "parsed"
    /\ input = Wrap(<<TOK_PLUS, TOK_TERM("a"), TOK_PLUS, TOK_TERM("a")>>)
    /\ result = AndNode(<<TermNode(<<"a">>, FALSE), TermNode(<<"a">>, FALSE)>>)

\* a token whose type is not in want_type ends the parse with ParseSyntaxError
C14_RejectsUnpermitted ==
    (HasToken /\ token.type \notin Cur.want_type)
        => (phase' = "failed" /\ err' = ParseSyntaxError)

\* the FIELD or NOT branch is about to pop an OPEN as next_token
PopsOpenAsNext ==
    /\ token.type \in {T_FIELD, T_NOT}
    /\ rest # <<>>
    /\ Head(rest).type = T_OPEN

\* an iteration that does not raise took only tokens of permitted types: the
\* token of the iteration, and the OPEN popped after a FIELD or a NOT (held
\* against want_type as it was and as the branch has just set it)
C14_AcceptsOnlyPermitted ==
    (HasToken /\ phase' = "parsing")
        => /\ token.type \in Cur.want_type
           /\ PopsOpenAsNext => T_OPEN \in Cur.want_type \cup WantAfterUnary

\* C14: in every iteration of the loop a token taken from the list, or
\* inserted, whose type is not in the want_type of the call makes the parse
\* fail with ParseSyntaxError, and no token of a type outside want_type is
\* accepted
C14_PermittedKinds == [][C14_RejectsUnpermitted /\ C14_AcceptsOnlyPermitted]_vars

\* the pending node after `operand` is merged into it
Merged(pending, operand) ==
    IF operand.k = pending.k
    THEN [pending EXCEPT !.operands = @ \o operand.operands]
    ELSE [pending EXCEPT !.operands = Append(@, operand)]

\* the operand a returning call hands to the branch that called it
ReturnedOperand ==
    IF Caller.pc = "open" THEN Cur.clause
    ELSE IF Caller.pc = "field" THEN FieldNode(Caller.field_name, Cur.clause)
    ELSE NotNode(Cur.clause)

\* the operand made of a TERM, NOOP or PHRASE token
LeafOperand ==
    IF popped.type = T_TERM
    THEN TermNode(popped.value, WildcardFollows(Tail(Toks(Cur))))
    ELSE IF popped.type = T_NOOP THEN NoopNode
    ELSE AndNode(PhraseOperands(popped.value))

\* an operand parsed by a call (parentheses, field, NOT) follows a connector
C15_MergeAtReturn ==
    (/\ Returning
     /\ Len(stack) > 1
     /\ Caller.boolean_clause # None
     /\ phase' = "parsing")
        => Head(stack').clause = Merged(Caller.boolean_clause, ReturnedOperand)

\* a TERM, NOOP or PHRASE follows a connector
C15_MergeAtLeaf ==
    (/\ HasToken
     /\ Cur.hanging_boolean
     /\ popped.type \in {T_TERM, T_NOOP, T_PHRASE}
     /\ phase' = "parsing")
        => Head(stack').clause = Merged(Cur.clause, LeafOperand)

C15_Examples ==
    LET a == TermNode(<<"a">>, FALSE)
        b == TermNode(<<"b">>, FALSE)
        c == TermNode(<<"c">>, FALSE)
    IN  /\ (Parsed /\ input = Wrap(<<TOK_TERM("a"), TOK_AND, TOK_TERM("b"), TOK_OR, TOK_TERM("c")>>))
              => result = OrNode(<<AndNode(<<a, b>>), c>>)
        /\ (Parsed /\ input = Wrap(<<TOK_TERM("a"), TOK_OR, TOK_TERM("b"), TOK_AND, TOK_TERM("c")>>))
              => result = AndNode(<<OrNode(<<a, b>>), c>>)
        /\ (Parsed /\ input = Wrap(<<TOK_TERM("a"), TOK_OR, TOK_OPEN, TOK_TERM("b"), TOK_TERM("c"), TOK_CLOSE>>))
              => result = OrNode(<<a, b, c>>)
        /\ (Parsed /\ input = Wrap(<<TOK_TERM("a"), TOK_AND, TOK_OPEN, TOK_TERM("b"), TOK_TERM("c"), TOK_CLOSE>>))
              => result = AndNode(<<a, OrNode(<<b, c>>)>>)
        /\ (Parsed /\ input = Wrap(<<TOK_TERM("a"), TOK_AND, TOK_PHRASE(<<"a", " ", "b">>)>>))
              => result = AndNode(<<a, a, b>>)

\* C15: the operand parsed after a connector is merged into the pending
\* And/Or node by concatenating the operand lists when it is a node of the
\* same kind (from parentheses or a phrase) and by appending it as one
\* operand otherwise; connectors of different kinds associate left to
\* right: `a and b or c` parses to Or(And(a, b), c) and `a or b and c` to
\* And(Or(a, b), c)
C15_MergeRule == [][C15_MergeAtReturn /\ C15_MergeAtLeaf /\ C15_Examples']_vars

\* both ways of merging have happened: Or(b, c) from parentheses was
\* concatenated into the pending Or
C15_Witness ==
    /\ phase = "parsed"
    /\ input = Wrap(<<TOK_TERM("a"), TOK_OR, TOK_OPEN, TOK_TERM("b"), TOK_TERM("c"), TOK_CLOSE>>)
    /\ result = OrNode(<<TermNode(<<"a">>, FALSE), TermNode(<<"b">>, FALSE),
                         TermNode(<<"c">>, FALSE)>>)

\* `node` without the marks filter_tree leaves on the nodes it returns
RECURSIVE Unmarked(_)
Unmarked(node) ==
    IF node = None THEN None
    ELSE IF IsBoolean(node)
    THEN [node EXCEPT !.filtered_by_function = NoFunction,
                      !.operands = [i \in 1..Len(node.operands) |-> Unmarked(node.operands[i])]]
    ELSE IF node.k \in {"NotNode", "FieldNode"}
    THEN [node EXCEPT !.filtered_by_function = NoFunction,
                      !.operand = Unmarked(node.operand)]
    ELSE [node EXCEPT !.filtered_by_function = NoFunction]

\* what is left of `node` when every node on which `function` is true is
\* dropped with its subtree: an And/Or node keeps the operands that are
\* left, in order, and is dropped when none is; a Not or Field node is
\* dropped when its operand is; a leaf stays as it is
RECURSIVE Surviving(_, _)
Surviving(node, function) ==
    IF node = None THEN None
    ELSE IF CallFilterFunction(function, node) THEN None
    ELSE IF IsBoolean(node)
    THEN LET left == [i \in 1..Len(node.operands) |-> Surviving(node.operands[i], function)]
             kept == SelectSeq(left, LAMBDA operand : operand # None)
         IN  IF kept = <<>> THEN None ELSE [node EXCEPT !.operands = kept]
    ELSE IF node.k \in {"NotNode", "FieldNode"}
    THEN LET left == Surviving(node.operand, function)
         IN  IF left = None THEN None ELSE [node EXCEPT !.operand = left]
    ELSE node

\* the tree the i-th filter_tree call was made on
SubjectOf(i) == IF i = 1 THEN result ELSE filtered[i - 1]

\* C16: filter_tree( t, p ) drops every node on which p is true together
\* with its subtree; an And/Or node is absent exactly when all its operands
\* became absent and is otherwise a node of the same kind holding the
\* surviving operands in order; a Not or Field node is absent exactly when
\* its operand became absent; a Term or Noop leaf on which p is false
\* survives unchanged
C16_FilterSemantics ==
    \A i \in 1..Len(filtered) :
        IsNode(SubjectOf(i)) =>
            /\ ~IsRaise(filtered[i])
            /\ Unmarked(filtered[i]) = Surviving(Unmarked(SubjectOf(i)), filter_function)

\* a statement of _parse_tokens is executed
ParseStep ==
    \/ WhileExit \/ SkipPlus \/ CheckTypeFails
    \/ OpenToken \/ CloseToken \/ NoopToken \/ TermToken
    \/ ConnectorToken \/ InsertOr \/ InsertAnd
    \/ FieldToken \/ WildToken \/ NotToken \/ PhraseToken
    \/ ReturnToParse \/ ReturnToOpen \/ ReturnToField \/ ReturnToNot

\* the parser is sequential code that runs on while it has a statement to
\* execute
FairSpec == Spec /\ WF_vars(ParseStep)

\* parse returns a clause or raises
C17_Terminates == <>(phase # "parsing")

\* a call leaves its loop only with its list empty or on a CLOSE it has
\* taken, and a call is left only by returning or by an exception
C17_CallEnds ==
    /\ (/\ InLoop
        /\ phase' = "parsing"
        /\ Len(stack') = Len(stack)
        /\ Head(stack').pc = "return")
           => \/ Toks(Cur) = <<>>
              \/ popped.type = T_CLOSE /\ OneTokenTaken
    /\ (phase = "parsing" /\ Len(stack') < Len(stack))
           => (Returning \/ phase' = "failed")

\* the list of the innermost call is shorter after the step
ListShorter ==
    IF Cur.shared
    THEN Len(tokens') < Len(tokens)
    ELSE Len(Head(stack').own) < Len(Cur.own)

\* the iteration put its token back: it is over after this step, the list is
\* as it was and a connector is now pending
PutBack ==
    /\ SameCallSameTokens
    /\ ~Cur.hanging_boolean
    /\ Head(stack').hanging_boolean

\* the first step of an iteration shortens the list of the call, unless it
\* is a whole iteration that puts its token back; such an iteration leaves
\* hanging_boolean set and is never the iteration after one that did, and
\* the list never grows in between (the calls made by an iteration only
\* shorten it): so the list is shorter after any two consecutive iterations
\* of a call
C17_TwoIterations ==
    /\ Len(tokens') <= Len(tokens)
    /\ HasToken => (phase' = "failed" \/ ListShorter \/ PutBack)
    /\ (HasToken /\ Cur.hanging_boolean) => (phase' = "failed" \/ ListShorter)

\* C17: the parser terminates on every token list, by returning a clause or
\* by raising; a call ends only by taking a CLOSE, by finding its list
\* empty, or by an exception; and although INSERT OR, INSERT AND and the
\* FIELD after NOT put a token back, the list of a call is strictly shorter
\* after every two consecutive iterations of its loop
C17_Termination == C17_Terminates /\ [][C17_CallEnds /\ C17_TwoIterations]_vars

\* a parse that put a token back (INSERT AND) and made the call for a FIELD
\* after NOT has returned
C17_Witness ==
    /\ phase = "parsed"
    /\ input = Wrap(<<TOK_TERM("a"), TOK_NOT, TOK_FIELD(<<"f">>), TOK_TERM("a")>>)
    /\ result # None

\* the leaves of `node`, left to right: the text of a Term, the placeholder
\* for a Noop
RECURSIVE Leaves(_)
RECURSIVE LeavesOfAll(_)
Leaves(node) ==
    IF node = None THEN <<>>
    ELSE IF IsBoolean(node) THEN LeavesOfAll(node.operands)
    ELSE IF node.k \in {"NotNode", "FieldNode"} THEN Leaves(node.operand)
    ELSE IF node.k = "TermNode" THEN <<node.term>>
    ELSE <<<<NOOP_PLACEHOLDER>>>>

LeavesOfAll(operands) ==
    IF operands = <<>> THEN <<>>
    ELSE Leaves(Head(operands)) \o LeavesOfAll(Tail(operands))

\* the TERM tokens, phrase words and NOOP tokens of `query`, left to right
RECURSIVE LeavesOfTokens(_)
LeavesOfTokens(query) ==
    IF query = <<>> THEN <<>>
    ELSE LET first == Head(query)
             leaves ==
                 IF first.type \in {T_TERM, T_NOOP} THEN <<first.value>>
                 ELSE IF first.type = T_PHRASE
                 THEN SelectSeq(re_split(first.value), LAMBDA word : word # <<>>)
                 ELSE <<>>
         IN  leaves \o LeavesOfTokens(Tail(query))

\* C18: in every tree the parser returns, the Term and Noop leaves, read
\* left to right, are the TERM tokens, phrase words and NOOP tokens of the
\* input in input order: no operand is reordered, duplicated or dropped
C18_LeafOrder == (Parsed /\ result # None) => Leaves(result) = LeavesOfTokens(input)

\* an AND, OR or PLUS token is taken as a connector and a CLOSE stands
\* right after it
C19_ConnectorCase ==
    /\ HasToken
    /\ popped.type \in {T_AND, T_OR, T_PLUS}
    /\ Cur.clause # None
    /\ popped.type = T_PLUS => Cur.clause.k \notin {"AndNode", "OrNode"}
    /\ Len(Toks(Cur)) >= 2
    /\ Toks(Cur)[2].type = T_CLOSE
    /\ phase' = "parsing"

\* the connector makes its node of the left clause: a one-operand node, or
\* a node with the operands of a left clause of its own kind
C19_NodeOfLeftClause ==
    /\ Len(stack') = Len(stack)
    /\ OneTokenTaken
    /\ Head(stack').pc = "loop"
    /\ Head(stack').hanging_boolean
    /\ Head(stack').clause =
           Over(IF popped.type = T_OR THEN "OrNode" ELSE "AndNode", Cur.clause)

\* a connector is pending and the next token is CLOSE
C19_CloseCase ==
    /\ HasToken
    /\ Cur.hanging_boolean
    /\ popped.type = T_CLOSE

\* the CLOSE is taken and the call returns the node of the connector
C19_Returns ==
    /\ phase' = "parsing"
    /\ Len(stack') = Len(stack)
    /\ OneTokenTaken
    /\ Head(stack').pc = "return"
    /\ Head(stack').clause = Cur.clause
    /\ Cur.clause.k \in {"AndNode", "OrNode"}
    /\ Len(Cur.clause.operands) >= 1

C19_Example ==
    (Parsed /\ input = Wrap(<<TOK_TERM("a"), TOK_AND>>))
        => /\ result = AndNode(<<TermNode(<<"a">>, FALSE)>>)
           /\ __repr__(result) = <<"(", " ", "a", " ", ")">>

\* C19: an AND, OR or connector PLUS followed directly by CLOSE is accepted:
\* the call returns the boolean node the connector made of the left clause,
\* with one operand or with the operands the left clause had; `a and` parses
\* to And(Term(a)), rendered `( a )`
C19_DanglingConnector ==
    [][/\ C19_ConnectorCase => C19_NodeOfLeftClause
       /\ C19_CloseCase => C19_Returns
       /\ C19_Example']_vars

C19_Witness ==
    /\ phase = "parsed"
    /\ input = Wrap(<<TOK_TERM("a"), TOK_AND>>)
    /\ __repr__(result) = <<"(", " ", "a", " ", ")">>

====
